---- MODULE Spec2Model ----
(***************************************************************************)
(* The hand engine of src/frontend/lib/poker-game.ts (class PokerGame):    *)
(* six seats, blinds, the betting actions, street progression, community   *)
(* cards and settlement.  A behaviour follows one hand of one instance:    *)
(* Spec the first hand of a new instance, SpecCarry a hand on an instance  *)
(* that carries the stacks of an earlier hand.  Every public method may be *)
(* called in any state of the hand, legal or not.                          *)
(***************************************************************************)
EXTENDS Integers, Sequences, FiniteSets, TLC

\* ------------------------------------------------------------------ bounds
\* Number of getHandResult calls made on one completed hand.
MaxSettle == 2
\* Constructor argument stackSize (the default is 10000).
TestStack == 50
\* Constructor argument of the instance that plays on unequal deep stacks.
DeepStack == 70

\* Amounts passed to bet(amount) and raise(amount).
Amounts == {20, 500}
\* Random sources handed to the Fisher-Yates shuffle.
Seeds == {"half"}

\* ------------------------------------------------------- program constants
NumSeats == 6
dealerPosition == 0
smallBlindPosition == 1
bigBlindPosition == 2
smallBlind == 20
bigBlind == 40

Seats == 0 .. (NumSeats - 1)
NoPlayer == 0 - 1

VARIABLES players, pot, communityCards, currentBet, gameState, deck,
          currentPlayerIndex, stackSize, started, settlesLeft, result

gameVars == <<players, pot, communityCards, currentBet, gameState, deck,
              currentPlayerIndex>>
vars == <<players, pot, communityCards, currentBet, gameState, deck,
          currentPlayerIndex, stackSize, started, settlesLeft, result>>

Min(a, b) == IF a < b THEN a ELSE b

\* ------------------------------------------------------------------- deck
\* createDeck's nested loops: suits outer, ranks inner; a card is the pair
\* (rank, suit) encoded as 13 * suit + rank.
orderedDeck == [k \in 1 .. 52 |-> 13 * ((k - 1) \div 13) + ((k - 1) % 13)]

\* Math.floor(Math.random() * (i + 1)): a value of 0 .. i, fixed by the seed.
randomIndex(seed, i) == IF seed = "last" THEN i ELSE i \div 2

swap(s, a, b) == [s EXCEPT ![a] = s[b], ![b] = s[a]]

\* for (i = hi; i > lo; i--) swap(shuffled[i], shuffled[randomIndex(i)]);
\* i always indexes into the array.
RECURSIVE shuffleSpan(_, _, _, _)
shuffleSpan(s, hi, lo, seed) ==
  IF hi > lo /\ hi < Len(s)
  THEN shuffleSpan(swap(s, hi + 1, randomIndex(seed, hi) + 1), hi - 1, lo, seed)
  ELSE s

\* The loop i = 51 .. 1 of shuffleDeck, run as four consecutive spans.
shuffleDeck(d, seed) ==
  LET n == Len(d) - 1
      a == shuffleSpan(d, n, 39, seed)
      b == shuffleSpan(a, 39, 26, seed)
      c == shuffleSpan(b, 26, 13, seed)
  IN  shuffleSpan(c, 13, 0, seed)

createDeck(seed) == shuffleDeck(orderedDeck, seed)

\* deck.pop(): the last element leaves the deck.
top(d) == d[Len(d)]
pop(d) == SubSeq(d, 1, Len(d) - 1)

\* ------------------------------------------------------------ the instance
initializePlayers(S) ==
  [i \in Seats |-> [stack |-> S, holeCards |-> <<>>, currentBet |-> 0,
                    hasActed |-> FALSE, isFolded |-> FALSE, isAllIn |-> FALSE]]

\* The fields the betting methods read and write, as one value.
Game == [players |-> players, pot |-> pot, currentBet |-> currentBet,
         gameState |-> gameState, currentPlayerIndex |-> currentPlayerIndex]

NoResult == [text |-> "", id |-> 0, amount |-> 0]
Said(t, p, n) == [text |-> t, id |-> p + 1, amount |-> n]

nonFolded(g) == {i \in Seats : ~g.players[i].isFolded}

\* Variant of isHandComplete: the showdown does not end the hand.
isHandComplete_foldsOnly(g) == Cardinality(nonFolded(g)) <= 1

isHandComplete(g) == Cardinality(nonFolded(g)) <= 1 \/ g.gameState = "showdown"

getCurrentPlayer(g) == IF isHandComplete(g) THEN NoPlayer ELSE g.currentPlayerIndex

\* Variant of isBettingRoundComplete: matched street bets end the round,
\* whether or not the seats have acted.
isBettingRoundComplete_betsOnly(g) ==
  LET activePlayers == {i \in Seats : ~g.players[i].isFolded /\ ~g.players[i].isAllIn}
  IN  (\A i \in activePlayers : g.players[i].currentBet = g.currentBet)
      \/ Cardinality(activePlayers) <= 1

isBettingRoundComplete(g) ==
  LET activePlayers == {i \in Seats : ~g.players[i].isFolded /\ ~g.players[i].isAllIn}
  IN  (\A i \in activePlayers :
          g.players[i].hasActed /\ g.players[i].currentBet = g.currentBet)
      \/ Cardinality(activePlayers) <= 1

skipped(g, i) == g.players[i].isFolded \/ g.players[i].isAllIn

\* Variant of nextSeat: the turn goes round the table the other way.
nextSeat_anticlockwise(g, index, attempts) ==
  LET back(d) == (index + NumSeats - d) % NumSeats
      d == CHOOSE d \in 1 .. NumSeats :
             ~skipped(g, back(d)) /\ \A k \in 1 .. (d - 1) : skipped(g, back(k))
  IN  back(d)

\* Variant of nextSeat: the turn moves one seat on without skipping anybody.
nextSeat_noSkip(g, index, attempts) == (index + 1) % NumSeats

\* do { index = (index + 1) % 6; attempts++; if (attempts > 6) return }
\* while (folded or all-in at index)
RECURSIVE nextSeat(_, _, _)
nextSeat(g, index, attempts) ==
  LET n == (index + 1) % NumSeats
  IN  IF attempts + 1 > 6 THEN n
      ELSE IF skipped(g, n) THEN nextSeat(g, n, attempts + 1)
      ELSE n

\* Variant of firstSeat: the seat after the dealer, whatever its flags.
firstSeat_noSkip(g, index, attempts) == index

\* while (folded or all-in at index) { index = (index + 1) % 6; attempts++;
\* if (attempts > 6) return }
RECURSIVE firstSeat(_, _, _)
firstSeat(g, index, attempts) ==
  IF ~skipped(g, index) THEN index
  ELSE IF attempts + 1 > 6 THEN (index + 1) % NumSeats
  ELSE firstSeat(g, (index + 1) % NumSeats, attempts + 1)

\* Variant of nextStreet: the flop case falls through to the river.
nextStreet_fallThrough(s) ==
  CASE s = "preflop" -> "flop"
    [] s = "flop" -> "river"
    [] s = "turn" -> "river"
    [] s = "river" -> "showdown"
    [] OTHER -> s

nextStreet(s) ==
  CASE s = "preflop" -> "flop"
    [] s = "flop" -> "turn"
    [] s = "turn" -> "river"
    [] s = "river" -> "showdown"
    [] OTHER -> s

moveToNextBettingRound(g) ==
  LET ps == [i \in Seats |-> [g.players[i] EXCEPT !.hasActed = FALSE, !.currentBet = 0]]
      g1 == [g EXCEPT !.players = ps, !.currentBet = 0,
                      !.gameState = nextStreet(g.gameState)]
      allAllIn == (\A i \in nonFolded(g1) : g1.players[i].isAllIn)
                  \/ Cardinality(nonFolded(g1)) <= 1
  IN  IF allAllIn THEN [g1 EXCEPT !.gameState = "showdown"]
      ELSE [g1 EXCEPT !.currentPlayerIndex =
                         firstSeat(g1, (dealerPosition + 1) % NumSeats, 0)]

moveToNextPlayer(g) ==
  IF isHandComplete(g) THEN g
  ELSE IF isBettingRoundComplete(g) THEN moveToNextBettingRound(g)
  ELSE [g EXCEPT !.currentPlayerIndex = nextSeat(g, g.currentPlayerIndex, 0)]

\* players.forEach((p, index) => index !== currentPlayerIndex && !p.isFolded
\*                               => p.hasActed = false)
resetOthers(g) ==
  [g EXCEPT !.players =
     [i \in Seats |->
        IF i # g.currentPlayerIndex /\ ~g.players[i].isFolded
        THEN [g.players[i] EXCEPT !.hasActed = FALSE]
        ELSE g.players[i]]]

markAllIn(g, p) ==
  IF g.players[p].stack = 0 THEN [g EXCEPT !.players[p].isAllIn = TRUE] ELSE g

\* Each method yields the new fields and the returned string; acted holds
\* the fields as the method's own assignments leave them, before it calls
\* moveToNextPlayer.  A rejected call returns early with nothing assigned.
Out(g, r) == [game |-> g, ret |-> r, acted |-> g]

\* The tail of an accepted method: this.moveToNextPlayer(); return result.
Moved(x, r) == [game |-> moveToNextPlayer(x), ret |-> r, acted |-> x]

\* Variant of getValidActions: check is offered whatever the amount to call.
getValidActions_alwaysCheck(g) ==
  LET p == getCurrentPlayer(g)
  IN  IF p = NoPlayer \/ g.players[p].isFolded \/ g.players[p].isAllIn THEN {}
      ELSE LET callAmount == g.currentBet - g.players[p].currentBet
               stack == g.players[p].stack
           IN  {"fold", "check"}
               \cup (IF callAmount # 0 /\ callAmount < stack THEN {"call"} ELSE {})
               \cup (IF stack > callAmount
                     THEN (IF g.currentBet = 0 THEN {"bet"} ELSE {"raise"})
                     ELSE {})
               \cup (IF stack > 0 THEN {"allin"} ELSE {})

getValidActions(g) ==
  LET p == getCurrentPlayer(g)
  IN  IF p = NoPlayer \/ g.players[p].isFolded \/ g.players[p].isAllIn THEN {}
      ELSE LET callAmount == g.currentBet - g.players[p].currentBet
               stack == g.players[p].stack
           IN  {"fold"}
               \cup (IF callAmount = 0 THEN {"check"}
                     ELSE IF callAmount < stack THEN {"call"} ELSE {})
               \cup (IF stack > callAmount
                     THEN (IF g.currentBet = 0 THEN {"bet"} ELSE {"raise"})
                     ELSE {})
               \cup (IF stack > 0 THEN {"allin"} ELSE {})

\* Variant of fold: the seat at currentPlayerIndex folds, complete hand or not.
fold_unguarded(g) ==
  LET p == g.currentPlayerIndex
  IN  Moved([g EXCEPT !.players[p].isFolded = TRUE,
                      !.players[p].hasActed = TRUE],
            Said("folds", p, 0))

fold(g) ==
  LET p == getCurrentPlayer(g)
  IN  IF p = NoPlayer THEN Out(g, NoResult)
      ELSE Moved([g EXCEPT !.players[p].isFolded = TRUE,
                           !.players[p].hasActed = TRUE],
               Said("folds", p, 0))

check(g) ==
  LET p == getCurrentPlayer(g)
  IN  IF p = NoPlayer THEN Out(g, NoResult)
      ELSE IF g.currentBet > g.players[p].currentBet THEN Out(g, NoResult)
      ELSE Moved([g EXCEPT !.players[p].hasActed = TRUE],
               Said("checks", p, 0))

call(g) ==
  LET p == getCurrentPlayer(g)
  IN  IF p = NoPlayer THEN Out(g, NoResult)
      ELSE LET callAmount == g.currentBet - g.players[p].currentBet
               actualCall == Min(callAmount, g.players[p].stack)
               g1 == [g EXCEPT !.players[p].stack = @ - actualCall,
                               !.players[p].currentBet = @ + actualCall,
                               !.players[p].hasActed = TRUE,
                               !.pot = @ + actualCall]
           IN  Moved(markAllIn(g1, p), Said("calls", p, actualCall))

bet(g, amount) ==
  LET p == getCurrentPlayer(g)
  IN  IF p = NoPlayer THEN Out(g, NoResult)
      ELSE IF g.currentBet > 0 THEN Out(g, NoResult)
      ELSE LET betAmount == Min(amount, g.players[p].stack)
               g1 == [g EXCEPT !.players[p].stack = @ - betAmount,
                               !.players[p].currentBet = betAmount,
                               !.players[p].hasActed = TRUE,
                               !.currentBet = betAmount,
                               !.pot = @ + betAmount]
           IN  Moved(resetOthers(markAllIn(g1, p)),
                   Said("bets", p, betAmount))

\* Variant of raise: the requested total is not capped to the stack.
raise_uncapped(g, amount) ==
  LET p == getCurrentPlayer(g)
  IN  IF p = NoPlayer THEN Out(g, NoResult)
      ELSE IF g.currentBet = 0 THEN Out(g, NoResult)
      ELSE LET callAmount == g.currentBet - g.players[p].currentBet
               totalAmount == callAmount + amount
               g1 == [g EXCEPT !.players[p].stack = @ - totalAmount,
                               !.players[p].currentBet = @ + totalAmount,
                               !.players[p].hasActed = TRUE,
                               !.currentBet = g.players[p].currentBet + totalAmount,
                               !.pot = @ + totalAmount]
           IN  Moved(resetOthers(markAllIn(g1, p)),
                   Said("raises to", p, g1.players[p].currentBet))

raise(g, amount) ==
  LET p == getCurrentPlayer(g)
  IN  IF p = NoPlayer THEN Out(g, NoResult)
      ELSE IF g.currentBet = 0 THEN Out(g, NoResult)
      ELSE LET callAmount == g.currentBet - g.players[p].currentBet
               totalAmount == Min(callAmount + amount, g.players[p].stack)
               g1 == [g EXCEPT !.players[p].stack = @ - totalAmount,
                               !.players[p].currentBet = @ + totalAmount,
                               !.players[p].hasActed = TRUE,
                               !.currentBet = g.players[p].currentBet + totalAmount,
                               !.pot = @ + totalAmount]
           IN  Moved(resetOthers(markAllIn(g1, p)),
                   Said("raises to", p, g1.players[p].currentBet))

\* Variant of allIn: currentBet follows the seat's street bet in every case.
allIn_alwaysRaises(g) ==
  LET p == getCurrentPlayer(g)
  IN  IF p = NoPlayer THEN Out(g, NoResult)
      ELSE IF g.players[p].stack = 0 THEN Out(g, NoResult)
      ELSE LET allInAmount == g.players[p].stack
               g1 == [g EXCEPT !.players[p].stack = 0,
                               !.players[p].currentBet = @ + allInAmount,
                               !.players[p].hasActed = TRUE,
                               !.players[p].isAllIn = TRUE,
                               !.pot = @ + allInAmount]
               g2 == resetOthers([g1 EXCEPT !.currentBet = g1.players[p].currentBet])
           IN  Moved(g2, Said("goes all-in with", p, allInAmount))

allIn(g) ==
  LET p == getCurrentPlayer(g)
  IN  IF p = NoPlayer THEN Out(g, NoResult)
      ELSE IF g.players[p].stack = 0 THEN Out(g, NoResult)
      ELSE LET allInAmount == g.players[p].stack
               g1 == [g EXCEPT !.players[p].stack = 0,
                               !.players[p].currentBet = @ + allInAmount,
                               !.players[p].hasActed = TRUE,
                               !.players[p].isAllIn = TRUE,
                               !.pot = @ + allInAmount]
               g2 == IF g1.players[p].currentBet > g1.currentBet
                     THEN resetOthers([g1 EXCEPT !.currentBet = g1.players[p].currentBet])
                     ELSE g1
           IN  Moved(g2, Said("goes all-in with", p, allInAmount))

shouldDealCommunityCards ==
  \/ gameState = "flop" /\ Len(communityCards) = 0
  \/ gameState = "turn" /\ Len(communityCards) = 3
  \/ gameState = "river" /\ Len(communityCards) = 4

\* Variant of dealHoleCards: the second pass deals from the same place.
dealHoleCards_noPop(ps, d) ==
  [j \in Seats |-> [ps[j] EXCEPT !.holeCards = <<d[Len(d) - j], d[Len(d) - j]>>]]

\* ------------------------------------------------------ hand life cycle
\* for (i < 2) for (j < 6) players[j].holeCards.push(deck.pop()): pass i
\* gives seat j the card that is 6 * i + j places from the end of the deck.
dealHoleCards(ps, d) ==
  [j \in Seats |->
     [ps[j] EXCEPT !.holeCards = <<d[Len(d) - j], d[Len(d) - (NumSeats + j)]>>]]

\* Variant of postBlinds: both blinds are taken from the small-blind seat.
postBlinds_sameSeat(ps) ==
  LET ps1 == [ps EXCEPT ![smallBlindPosition].stack = @ - smallBlind,
                        ![smallBlindPosition].currentBet = smallBlind]
  IN  [ps1 EXCEPT ![smallBlindPosition].stack = @ - bigBlind,
                  ![bigBlindPosition].currentBet = bigBlind]

\* The two forced bets; the caller sets pot to smallBlind + bigBlind.
postBlinds(ps) ==
  LET ps1 == [ps EXCEPT ![smallBlindPosition].stack = @ - smallBlind,
                        ![smallBlindPosition].currentBet = smallBlind]
  IN  [ps1 EXCEPT ![bigBlindPosition].stack = @ - bigBlind,
                  ![bigBlindPosition].currentBet = bigBlind]

\* Variant of startNewHand: the flags of the previous hand are not cleared.
startNewHand_keepFlags(ps, seed) ==
  LET d0 == createDeck(seed)
      ps0 == [j \in Seats |-> [ps[j] EXCEPT !.holeCards = <<>>, !.currentBet = 0]]
  IN  [players |-> postBlinds(dealHoleCards(ps0, d0)),
       pot |-> smallBlind + bigBlind,
       currentBet |-> bigBlind,
       gameState |-> "preflop",
       currentPlayerIndex |-> (bigBlindPosition + 1) % NumSeats,
       communityCards |-> <<>>,
       deck |-> SubSeq(d0, 1, Len(d0) - 2 * NumSeats)]

\* startNewHand: a fresh deck, flags cleared, hole cards dealt, blinds posted.
startNewHand(ps, seed) ==
  LET d0 == createDeck(seed)
      ps0 == [j \in Seats |->
                [ps[j] EXCEPT !.holeCards = <<>>, !.currentBet = 0,
                              !.hasActed = FALSE, !.isFolded = FALSE,
                              !.isAllIn = FALSE]]
  IN  [players |-> postBlinds(dealHoleCards(ps0, d0)),
       pot |-> smallBlind + bigBlind,
       currentBet |-> bigBlind,
       gameState |-> "preflop",
       currentPlayerIndex |-> (bigBlindPosition + 1) % NumSeats,
       communityCards |-> <<>>,
       deck |-> SubSeq(d0, 1, Len(d0) - 2 * NumSeats)]

\* Variant of winnerSeat: players[0] without the isFolded filter.
winnerSeat_unfiltered(g) == CHOOSE i \in Seats : \A j \in Seats : i <= j

\* const winner = activePlayers[0]: the lowest-indexed seat that has not folded.
winnerSeat(g) == CHOOSE i \in nonFolded(g) : \A j \in nonFolded(g) : i <= j

\* getHandResult: winner.stack += this.pot; the pot field is left as it is.
getHandResult(g) == [g EXCEPT !.players[winnerSeat(g)].stack = @ + g.pot]

\* Variant of dealCommunityCards: the turn branch does not look at the board.
dealCommunityCards_anyBoard(gs, cc, d) ==
  IF gs = "flop" /\ Len(cc) = 0
  THEN [communityCards |-> <<d[Len(d) - 1], d[Len(d) - 2], d[Len(d) - 3]>>,
        deck |-> SubSeq(d, 1, Len(d) - 4),
        ret |-> [text |-> "Flop cards dealt", id |-> 0, amount |-> 3]]
  ELSE IF gs = "turn"
  THEN [communityCards |-> Append(cc, top(pop(d))),
        deck |-> pop(pop(d)),
        ret |-> [text |-> "Turn card dealt", id |-> 0, amount |-> 1]]
  ELSE IF gs = "river" /\ Len(cc) = 4
  THEN [communityCards |-> Append(cc, top(pop(d))),
        deck |-> pop(pop(d)),
        ret |-> [text |-> "River card dealt", id |-> 0, amount |-> 1]]
  ELSE [communityCards |-> cc, deck |-> d, ret |-> NoResult]

\* dealCommunityCards: burn one card, then reveal 3 (flop) or 1 (turn, river).
dealCommunityCards(gs, cc, d) ==
  IF gs = "flop" /\ Len(cc) = 0
  THEN [communityCards |-> <<d[Len(d) - 1], d[Len(d) - 2], d[Len(d) - 3]>>,
        deck |-> SubSeq(d, 1, Len(d) - 4),
        ret |-> [text |-> "Flop cards dealt", id |-> 0, amount |-> 3]]
  ELSE IF gs = "turn" /\ Len(cc) = 3
  THEN [communityCards |-> Append(cc, top(pop(d))),
        deck |-> pop(pop(d)),
        ret |-> [text |-> "Turn card dealt", id |-> 0, amount |-> 1]]
  ELSE IF gs = "river" /\ Len(cc) = 4
  THEN [communityCards |-> Append(cc, top(pop(d))),
        deck |-> pop(pop(d)),
        ret |-> [text |-> "River card dealt", id |-> 0, amount |-> 1]]
  ELSE [communityCards |-> cc, deck |-> d, ret |-> NoResult]

\* ---------------------------------------------------------------- actions
\* new PokerGame(stackSize)
Init ==
  /\ stackSize = TestStack
  /\ players = initializePlayers(stackSize)
  /\ pot = 0
  /\ communityCards = <<>>
  /\ currentBet = 0
  /\ gameState = "preflop"
  /\ deck = <<>>
  /\ currentPlayerIndex = 3
  /\ started = FALSE
  /\ settlesLeft = MaxSettle
  /\ result = NoResult

\* The host starts a hand on a new instance, or after the previous hand was
\* settled (handleAction calls getHandResult as soon as the hand is complete).
\* A behaviour follows one hand: started records that it has begun.
StartNewHand ==
  /\ ~started
  /\ deck = <<>> \/ (isHandComplete(Game) /\ settlesLeft < MaxSettle)
  /\ \E seed \in Seeds :
       LET h == startNewHand(players, seed)
       IN  /\ players' = h.players
           /\ pot' = h.pot
           /\ currentBet' = h.currentBet
           /\ gameState' = h.gameState
           /\ currentPlayerIndex' = h.currentPlayerIndex
           /\ communityCards' = h.communityCards
           /\ deck' = h.deck
  /\ started' = TRUE
  /\ settlesLeft' = MaxSettle
  /\ result' = NoResult
  /\ UNCHANGED stackSize

\* A betting method applied to the instance: its fields and return value.
Apply(o) ==
  /\ deck # <<>>
  /\ players' = o.game.players
  /\ pot' = o.game.pot
  /\ currentBet' = o.game.currentBet
  /\ gameState' = o.game.gameState
  /\ currentPlayerIndex' = o.game.currentPlayerIndex
  /\ result' = o.ret
  /\ UNCHANGED <<communityCards, deck, stackSize, started, settlesLeft>>

Fold == Apply(fold(Game))
Check == Apply(check(Game))
Call == Apply(call(Game))
Bet == \E a \in Amounts : Apply(bet(Game, a))
Raise == \E a \in Amounts : Apply(raise(Game, a))
AllIn == Apply(allIn(Game))

DealCommunityCards ==
  /\ deck # <<>>
  /\ LET o == dealCommunityCards(gameState, communityCards, deck)
     IN  /\ communityCards' = o.communityCards
         /\ deck' = o.deck
         /\ result' = o.ret
  /\ UNCHANGED <<players, pot, currentBet, gameState, currentPlayerIndex,
                 stackSize, started, settlesLeft>>

\* The host asks for the result once the hand is complete.
GetHandResult ==
  /\ deck # <<>>
  /\ isHandComplete(Game)
  /\ settlesLeft > 0
  /\ players' = getHandResult(Game).players
  /\ settlesLeft' = settlesLeft - 1
  /\ result' = [text |-> "ended", id |-> 0, amount |-> pot]
  /\ UNCHANGED <<pot, communityCards, currentBet, gameState, deck,
                 currentPlayerIndex, stackSize, started>>

Next ==
  \/ StartNewHand
  \/ Fold
  \/ Check
  \/ Call
  \/ Bet
  \/ Raise
  \/ AllIn
  \/ DealCommunityCards
  \/ GetHandResult

Spec == Init /\ [][Next]_vars

\* ------------------------------------------------- a carried-over instance
\* The instance after one walkover hand: startNewHand, the five seats before
\* the big blind fold in turn, getHandResult pays the big blind (once).
walkover ==
  LET h == startNewHand(initializePlayers(TestStack), "half")
      g0 == [players |-> h.players, pot |-> h.pot, currentBet |-> h.currentBet,
             gameState |-> h.gameState, currentPlayerIndex |-> h.currentPlayerIndex]
      g5 == fold(fold(fold(fold(fold(g0).game).game).game).game).game
  IN  [game |-> getHandResult(g5), deck |-> h.deck]

InitCarry ==
  /\ stackSize = TestStack
  /\ players = walkover.game.players
  /\ pot = walkover.game.pot
  /\ communityCards = <<>>
  /\ currentBet = walkover.game.currentBet
  /\ gameState = walkover.game.gameState
  /\ deck = walkover.deck
  /\ currentPlayerIndex = walkover.game.currentPlayerIndex
  /\ started = FALSE
  /\ settlesLeft = 0
  /\ result = [text |-> "ended", id |-> 0, amount |-> walkover.game.pot]

SpecCarry == InitCarry /\ [][Next]_vars

\* The instance after a hand in which all six seats went all-in in turn:
\* getHandResult pays the whole pot (once) to seat 0, the first non-folded
\* seat, and every other seat carries a stack of 0 into the next hand.
allInHand ==
  LET h == startNewHand(initializePlayers(TestStack), "half")
      g0 == [players |-> h.players, pot |-> h.pot, currentBet |-> h.currentBet,
             gameState |-> h.gameState, currentPlayerIndex |-> h.currentPlayerIndex]
      g4 == allIn(allIn(allIn(allIn(g0).game).game).game).game
      g6 == allIn(allIn(g4).game).game
  IN  [game |-> getHandResult(g6), deck |-> h.deck]

InitShort ==
  /\ stackSize = TestStack
  /\ players = allInHand.game.players
  /\ pot = allInHand.game.pot
  /\ communityCards = <<>>
  /\ currentBet = allInHand.game.currentBet
  /\ gameState = allInHand.game.gameState
  /\ deck = allInHand.deck
  /\ currentPlayerIndex = allInHand.game.currentPlayerIndex
  /\ started = FALSE
  /\ settlesLeft = 0
  /\ result = [text |-> "ended", id |-> 0, amount |-> allInHand.game.pot]

SpecShort == InitShort /\ [][Next]_vars

\* ------------------------------------------- betting on unequal deep stacks
\* The instance new PokerGame(DeepStack) after one walkover hand: every seat
\* keeps at least a big blind and the stacks differ.
deepWalkover ==
  LET h == startNewHand(initializePlayers(DeepStack), "half")
      g0 == [players |-> h.players, pot |-> h.pot, currentBet |-> h.currentBet,
             gameState |-> h.gameState, currentPlayerIndex |-> h.currentPlayerIndex]
      g5 == fold(fold(fold(fold(fold(g0).game).game).game).game).game
  IN  [game |-> getHandResult(g5), deck |-> h.deck]

InitDeep ==
  /\ stackSize = DeepStack
  /\ players = deepWalkover.game.players
  /\ pot = deepWalkover.game.pot
  /\ communityCards = <<>>
  /\ currentBet = deepWalkover.game.currentBet
  /\ gameState = deepWalkover.game.gameState
  /\ deck = deepWalkover.deck
  /\ currentPlayerIndex = deepWalkover.game.currentPlayerIndex
  /\ started = FALSE
  /\ settlesLeft = 0
  /\ result = [text |-> "ended", id |-> 0, amount |-> deepWalkover.game.pot]

\* One call of a betting method.
BettingCall ==
  \/ Fold
  \/ Check
  \/ Call
  \/ Bet
  \/ Raise
  \/ AllIn

\* The players' moves alone: a hand is started and then the betting methods
\* are called, one call after the other, for as long as a call changes
\* anything.
NextBetting ==
  \/ StartNewHand
  \/ BettingCall

SpecBetting == InitDeep /\ [][NextBetting]_vars /\ WF_vars(BettingCall)

\* ------------------------------------------------------------- properties
RECURSIVE sumStacks(_, _)
sumStacks(ps, n) == IF n = 0 THEN 0 ELSE ps[n - 1].stack + sumStacks(ps, n - 1)

\* A hand has been started on the instance.
Dealt == deck # <<>>
Actor == currentPlayerIndex
InPlay == Dealt /\ ~isHandComplete(Game)
StreetOrder == <<"preflop", "flop", "turn", "river", "showdown">>
streetIndex(s) == CHOOSE k \in 1 .. 5 : StreetOrder[k] = s
everyoneAllIn(g) == \A i \in nonFolded(g) : g.players[i].isAllIn

\* C1: in every reachable state pot plus the six stacks is 6 x stackSize.
C1_ChipConservation == pot + sumStacks(players, NumSeats) = NumSeats * stackSize

\* C2: an illegal action changes no field: check while currentBet differs
\* from the actor's street bet, bet while currentBet > 0, raise while
\* currentBet = 0, allIn with stack 0, and any action once the hand is complete.
C2_IllegalActionNoOp ==
  Dealt =>
    /\ isHandComplete(Game) =>
         /\ fold(Game).game = Game
         /\ check(Game).game = Game
         /\ call(Game).game = Game
         /\ allIn(Game).game = Game
         /\ \A a \in Amounts : bet(Game, a).game = Game /\ raise(Game, a).game = Game
    /\ ~isHandComplete(Game) =>
         /\ currentBet # players[Actor].currentBet => check(Game).game = Game
         /\ currentBet > 0 => \A a \in Amounts : bet(Game, a).game = Game
         /\ currentBet = 0 => \A a \in Amounts : raise(Game, a).game = Game
         /\ players[Actor].stack = 0 => allIn(Game).game = Game

\* C3: getValidActions never offers check when currentBet exceeds the actor's
\* street bet, never bet when currentBet > 0, never raise when currentBet = 0.
C3_ValidActionsLegal ==
  InPlay =>
    /\ currentBet > players[Actor].currentBet => "check" \notin getValidActions(Game)
    /\ currentBet > 0 => "bet" \notin getValidActions(Game)
    /\ currentBet = 0 => "raise" \notin getValidActions(Game)

\* A hand in play on the flop with nothing bet: bet is offered, raise is not.
C3_Witness ==
  /\ InPlay
  /\ gameState = "flop"
  /\ currentBet = 0
  /\ {"check", "bet"} \subseteq getValidActions(Game)

\* C4: while the hand is not complete the seat at currentPlayerIndex is
\* neither folded nor all-in, and within a hand a seat that is folded or
\* all-in stays so: such a seat is not the actor again before startNewHand.
C4_ActorIsLive ==
  /\ [](InPlay => ~players[Actor].isFolded /\ ~players[Actor].isAllIn)
  /\ [][started' = started =>
          \A i \in Seats : /\ players[i].isFolded => players'[i].isFolded
                           /\ players[i].isAllIn => players'[i].isAllIn]_vars

\* A hand in play past the preflop with a folded seat and an all-in seat
\* between the dealer and the actor.
C4_Witness ==
  /\ InPlay
  /\ gameState # "preflop"
  /\ \E i, j \in Seats : i < j /\ j < Actor
                         /\ players[i].isFolded /\ players[j].isAllIn

\* C5: within a hand a change of street goes to the next street in order, or
\* to showdown with every non-folded seat all-in; showdown is never left.
C5_StreetOrder ==
  [][(started' = started /\ gameState' # gameState) =>
       /\ gameState # "showdown"
       /\ \/ streetIndex(gameState') = streetIndex(gameState) + 1
          \/ gameState' = "showdown" /\ everyoneAllIn(Game')]_vars

\* The all-in short-circuit: showdown with several seats left, all of them
\* all-in, and no community card dealt.
C5_Witness ==
  /\ gameState = "showdown"
  /\ Cardinality(nonFolded(Game)) >= 2
  /\ everyoneAllIn(Game)
  /\ communityCards = <<>>

\* C6: the number of community cards is one of 0, 3, 4, 5 and does not
\* decrease within a hand.
C6_BoardSizes ==
  [][/\ Len(communityCards') \in {0, 3, 4, 5}
     /\ started' = started => Len(communityCards') >= Len(communityCards)]_vars

\* The full board has been dealt.
C6_Witness == Len(communityCards) = 5 /\ gameState = "river"

\* C7: startNewHand on a fresh instance leaves pot = 60, the small blind seat
\* with stack S - 20 and street bet 20, the big blind seat with S - 40 and
\* 40, every other seat with S, and two hole cards on each seat.
C7_BlindsPosted ==
  [][(deck = <<>> /\ deck' # <<>>) =>
       /\ pot' = smallBlind + bigBlind
       /\ pot' = 60
       /\ players'[smallBlindPosition].stack = stackSize - 20
       /\ players'[smallBlindPosition].currentBet = 20
       /\ players'[bigBlindPosition].stack = stackSize - 40
       /\ players'[bigBlindPosition].currentBet = 40
       /\ \A i \in Seats \ {smallBlindPosition, bigBlindPosition} :
            players'[i].stack = stackSize
       /\ \A i \in Seats : Len(players'[i].holeCards) = 2]_vars

\* The first hand has just been started: nobody has acted, the blinds are in.
C7_Witness ==
  /\ Dealt
  /\ gameState = "preflop"
  /\ pot = 60
  /\ Actor = 3
  /\ \A i \in Seats : ~players[i].hasActed /\ Len(players[i].holeCards) = 2

\* C8: with exactly one seat not folded the hand is complete, and settlement
\* adds the whole pot to that seat's stack and changes no other stack.
C8_WalkoverPaid ==
  \A w \in Seats :
    (Dealt /\ nonFolded(Game) = {w}) =>
      /\ isHandComplete(Game)
      /\ getCurrentPlayer(Game) = NoPlayer
      /\ getHandResult(Game).players = [players EXCEPT ![w].stack = @ + pot]

\* Five folds from the start of a hand, then settlement: the big blind seat
\* holds its stack after the blind plus the pot of 60.
C8_Witness ==
  /\ nonFolded(Game) = {bigBlindPosition}
  /\ result.text = "ended"
  /\ pot = 60
  /\ players[bigBlindPosition].stack = stackSize - bigBlind + 60

\* C9: check is accepted exactly when currentBet equals the actor's street
\* bet, and an accepted check changes no stack, nor the pot, nor (on the
\* street it is made on) currentBet.
C9_CheckIffEven ==
  InPlay =>
    /\ check(Game).ret # NoResult <=> currentBet = players[Actor].currentBet
    /\ check(Game).ret # NoResult =>
         /\ \A i \in Seats : check(Game).game.players[i].stack = players[i].stack
         /\ check(Game).game.pot = pot
         /\ (check(Game).game.gameState = gameState
               => check(Game).game.currentBet = currentBet)

\* C10: raise(amount) commits min((currentBet - street bet) + amount, stack):
\* the stack falls and the pot rises by that number, which never exceeds the
\* stack, and the seat is all-in when its stack reaches 0.
C10_RaiseCapped ==
  InPlay /\ currentBet # 0 =>
    \A a \in Amounts :
      LET commit == Min((currentBet - players[Actor].currentBet) + a,
                        players[Actor].stack)
          after == raise(Game, a).game
      IN  /\ after.players[Actor].stack = players[Actor].stack - commit
          /\ after.pot = pot + commit
          /\ commit <= players[Actor].stack
          /\ after.players[Actor].stack = 0 => after.players[Actor].isAllIn
          /\ \A i \in Seats \ {Actor} : after.players[i].stack = players[i].stack

\* The big blind seat of a carried-over hand, stack 30 after its blind of 40,
\* has called raise(500): it committed 30 (street bet 70, not 540), is all-in.
C10_Witness ==
  /\ result = Said("raises to", bigBlindPosition, 70)
  /\ players[bigBlindPosition].stack = 0
  /\ players[bigBlindPosition].isAllIn

\* The seats other than i that can still act: neither folded nor all-in.
otherLive(g, i) == {j \in Seats \ {i} : ~g.players[j].isFolded /\ ~g.players[j].isAllIn}

\* The effect the claim gives an accepted bet or raise o made in the state g.
betResets(g, o) ==
  o.ret # NoResult =>
    /\ \A i \in nonFolded(g) \ {g.currentPlayerIndex} : ~o.game.players[i].hasActed
    /\ o.game.players[g.currentPlayerIndex].hasActed
    /\ otherLive(o.game, g.currentPlayerIndex) # {} => o.game.gameState = g.gameState

\* C11: after an accepted bet or raise every other non-folded seat has
\* hasActed false and the bettor has hasActed true, so the street does not
\* end before every other seat that can act has acted again.
C11_BetResetsOthers ==
  InPlay =>
    \A a \in Amounts : betResets(Game, bet(Game, a)) /\ betResets(Game, raise(Game, a))

\* C12: every seat's stack is a non-negative integer in every reachable
\* state, also after startNewHand has posted the blinds.
C12_StacksNonNegative == \A i \in Seats : players[i].stack \in Nat

\* The highest street bet among the six seats.
highestBet(ps) == CHOOSE b \in {ps[i].currentBet : i \in Seats} :
                    \A i \in Seats : ps[i].currentBet <= b

\* C13: in every state of a hand currentBet equals the highest street bet of
\* the six seats; no action leaves currentBet below some seat's street bet.
C13_CurrentBetIsHighest == Dealt => currentBet = highestBet(players)

\* At most one seat has not folded, or the street is showdown.
handOver == Cardinality({i \in Seats : ~players[i].isFolded}) <= 1
            \/ gameState = "showdown"

\* C14: isHandComplete() is true exactly when at most one seat is non-folded
\* or the street is showdown; while it is true getCurrentPlayer() is null,
\* getValidActions() is empty and fold, check, call, bet, raise and allIn
\* change nothing; and it stays true until startNewHand.
C14_CompleteIsFinal ==
  /\ [](Dealt =>
          /\ isHandComplete(Game) <=> handOver
          /\ handOver =>
               /\ getCurrentPlayer(Game) = NoPlayer
               /\ getValidActions(Game) = {}
               /\ fold(Game) = Out(Game, NoResult)
               /\ check(Game) = Out(Game, NoResult)
               /\ call(Game) = Out(Game, NoResult)
               /\ allIn(Game) = Out(Game, NoResult)
               /\ \A a \in Amounts : /\ bet(Game, a) = Out(Game, NoResult)
                                     /\ raise(Game, a) = Out(Game, NoResult))
  /\ [][(handOver /\ started' = started) => handOver']_vars

\* A method was called at showdown and returned the empty string.
C14_Witness == Dealt /\ gameState = "showdown" /\ result = NoResult

\* Amounts that are not positive.
NonPositive == {0, 0 - 20}

\* C15: bet(amount) and raise(amount) with an amount that is 0 or negative
\* are rejected: stacks, street bets, pot, currentBet, hasActed flags and the
\* turn stay as they are.
C15_NonPositiveRejected ==
  InPlay =>
    \A a \in NonPositive : bet(Game, a).game = Game /\ raise(Game, a).game = Game

\* C16: at a showdown reached with every non-folded seat all-in, at least two
\* seats left and fewer than 5 community cards, shouldDealCommunityCards() is
\* true; and a hand is not settled at showdown between several seats on a
\* board of fewer than 5 cards.
C16_RevealBeforeSettle ==
  (Dealt /\ gameState = "showdown" /\ Cardinality(nonFolded(Game)) >= 2) =>
    /\ (everyoneAllIn(Game) /\ Len(communityCards) < 5) => shouldDealCommunityCards
    /\ result.text = "ended" => Len(communityCards) = 5

\* The six methods called with every input, in the current state.
Calls ==
  {fold(Game), check(Game), call(Game), allIn(Game)}
    \cup {bet(Game, a) : a \in Amounts} \cup {raise(Game, a) : a \in Amounts}

\* The accepted calls that leave more than one seat non-folded.
Accepted == {o \in Calls : o.ret # NoResult /\ Cardinality(nonFolded(o.acted)) > 1}

\* The round-completion predicate: every seat that is neither folded nor
\* all-in has acted and matches currentBet, or at most one such seat is left.
roundOver(g) ==
  \/ \A i \in Seats :
       (~g.players[i].isFolded /\ ~g.players[i].isAllIn)
         => (g.players[i].hasActed /\ g.players[i].currentBet = g.currentBet)
  \/ \A i, j \in Seats :
       (~g.players[i].isFolded /\ ~g.players[i].isAllIn
          /\ ~g.players[j].isFolded /\ ~g.players[j].isAllIn) => i = j

\* C17: after an accepted action that does not complete the hand the street
\* advances exactly when the round-completion predicate holds of the fields
\* the action has written; otherwise nothing but the turn changes.
C17_StreetAdvancesIffRoundOver ==
  InPlay =>
    \A o \in Accepted :
      /\ roundOver(o.acted) <=> o.game.gameState # gameState
      /\ ~roundOver(o.acted) =>
           /\ o.game = [o.acted EXCEPT !.currentPlayerIndex = o.game.currentPlayerIndex]
           /\ o.game.currentPlayerIndex # Actor

\* The flop round has been closed by a check: the hand is on the turn.
C17_Witness == InPlay /\ gameState = "turn" /\ result.text = "checks"

\* Seat i can be given the turn: it is neither folded nor all-in.
eligible(g, i) == ~g.players[i].isFolded /\ ~g.players[i].isAllIn

\* C18: after an accepted action that completes neither the round nor the
\* hand the new actor is the nearest seat clockwise from the seat that acted
\* that is neither folded nor all-in: no such seat is passed over and the
\* turn does not stay on the seat that acted.
C18_NextActorClockwise ==
  InPlay =>
    \A o \in Accepted :
      ~roundOver(o.acted) =>
        \E d \in 1 .. (NumSeats - 1) :
          /\ o.game.currentPlayerIndex = (Actor + d) % NumSeats
          /\ eligible(o.acted, (Actor + d) % NumSeats)
          /\ \A k \in 1 .. (d - 1) : ~eligible(o.acted, (Actor + k) % NumSeats)

\* A call before the flop after which the turn passed over the next seat,
\* which is folded or all-in.
C18_Witness ==
  /\ InPlay
  /\ gameState = "preflop"
  /\ result.text = "calls"
  /\ skipped(Game, result.id % NumSeats)
  /\ Actor # result.id % NumSeats

\* No betting method is accepted in g.
bettingClosed(g) ==
  /\ fold(g).ret = NoResult
  /\ check(g).ret = NoResult
  /\ call(g).ret = NoResult
  /\ allIn(g).ret = NoResult
  /\ \A a \in Amounts : bet(g, a).ret = NoResult /\ raise(g, a).ret = NoResult

\* C19: when an accepted action ends the betting round with every non-folded
\* seat all-in, or leaves only one seat un-folded, the street becomes
\* showdown directly and no further betting action is accepted.
C19_ShortCircuit ==
  InPlay =>
    \A o \in Calls :
      (/\ o.ret # NoResult
       /\ \/ roundOver(o.acted) /\ everyoneAllIn(o.acted)
          \/ Cardinality(nonFolded(o.acted)) = 1)
        => o.game.gameState = "showdown" /\ bettingClosed(o.game)

\* C20: a street transition that does not end the hand leaves every
\* non-folded seat with hasActed false and street bet 0 and currentBet 0,
\* changes no stack and not the pot, and gives the turn to the first seat
\* clockwise after the dealer that is neither folded nor all-in.
C20_StreetTransition ==
  InPlay =>
    \A o \in Accepted :
      (o.game.gameState # gameState /\ o.game.gameState # "showdown") =>
        /\ \A i \in nonFolded(o.game) :
             ~o.game.players[i].hasActed /\ o.game.players[i].currentBet = 0
        /\ o.game.currentBet = 0
        /\ \A i \in Seats : o.game.players[i].stack = o.acted.players[i].stack
        /\ o.game.pot = o.acted.pot
        /\ \E d \in 1 .. NumSeats :
             /\ o.game.currentPlayerIndex = (dealerPosition + d) % NumSeats
             /\ eligible(o.game, (dealerPosition + d) % NumSeats)
             /\ \A k \in 1 .. (d - 1) : ~eligible(o.game, (dealerPosition + k) % NumSeats)

\* The flop has just begun after a call, the small blind seat is out of the
\* betting and the turn is on a later seat.
C20_Witness ==
  /\ InPlay
  /\ gameState = "flop"
  /\ result.text = "calls"
  /\ currentBet = 0
  /\ \A i \in Seats : ~players[i].hasActed
  /\ skipped(Game, smallBlindPosition)
  /\ Actor # smallBlindPosition

\* C21: immediately after startNewHand currentBet is the big blind, the
\* street is preflop, no seat is folded or all-in and the actor is the seat
\* after the big blind; a fold at that point folds that seat and no other.
C21_FirstToAct ==
  [][(~started /\ started') =>
       /\ currentBet' = bigBlind
       /\ gameState' = "preflop"
       /\ \A i \in Seats : ~players'[i].isFolded /\ ~players'[i].isAllIn
       /\ currentPlayerIndex' = (bigBlindPosition + 1) % NumSeats
       /\ getCurrentPlayer(Game') = (bigBlindPosition + 1) % NumSeats
       /\ fold(Game').ret # NoResult
       /\ \A i \in Seats :
            fold(Game').game.players[i].isFolded
              <=> i = (bigBlindPosition + 1) % NumSeats]_vars

\* The first action of a hand on a carried-over instance was a fold: the
\* seat after the big blind is the only folded seat.
C21_Witness ==
  /\ result = Said("folds", 3, 0)
  /\ gameState = "preflop"
  /\ \A i \in Seats : players[i].isFolded <=> i = 3
  /\ \A i \in Seats \ {3} : ~players[i].hasActed
  /\ players[bigBlindPosition].stack = 30

cardsOf(s) == {s[k] : k \in 1 .. Len(s)}

\* Every card on a seat, on the board or in the deck.
cardsInUse ==
  UNION {cardsOf(players[i].holeCards) : i \in Seats}
    \cup cardsOf(communityCards) \cup cardsOf(deck)

\* C23: within a hand the 12 hole cards, the community cards and the cards
\* left in the deck are pairwise distinct cards of the 52 (as many different
\* cards as places), and hole cards, burns and board take at most 20 cards,
\* so the deck does not run out.
C23_NoCardTwice ==
  Dealt =>
    /\ cardsInUse \subseteq 0 .. 51
    /\ \A i \in Seats : Len(players[i].holeCards) = 2
    /\ Cardinality(cardsInUse) = 2 * NumSeats + Len(communityCards) + Len(deck)
    /\ Len(deck) >= 52 - 20

\* The whole board is out: 12 hole cards, 5 community cards, 3 burns.
C23_Witness ==
  /\ Len(communityCards) = 5
  /\ Len(deck) = 32
  /\ \A i \in Seats : Len(players[i].holeCards) = 2

\* Some seat that is neither folded nor all-in has bet less than currentBet.
owesCall(g) == \E i \in Seats : eligible(g, i) /\ g.players[i].currentBet < g.currentBet

\* C24: no accepted action ends the street (or brings the showdown) while a
\* seat that is neither folded nor all-in has a street bet below currentBet,
\* also when that seat is the only one left that can act.
C24_NoStreetEndWhileOwing ==
  InPlay =>
    \A o \in Calls :
      (o.ret # NoResult /\ owesCall(o.acted)) => o.game.gameState = gameState

\* The method behind each name getValidActions can return, with every input.
callsNamed(g, name) ==
  CASE name = "fold" -> {fold(g)}
    [] name = "check" -> {check(g)}
    [] name = "call" -> {call(g)}
    [] name = "bet" -> {bet(g, a) : a \in Amounts}
    [] name = "raise" -> {raise(g, a) : a \in Amounts}
    [] name = "allin" -> {allIn(g)}

\* C25: for the current actor a method whose name is not in the list
\* getValidActions() returns is a no-op: it changes no field.
C25_ValidActionsAgree ==
  InPlay =>
    \A name \in {"fold", "check", "call", "bet", "raise", "allin"} \ getValidActions(Game) :
      \A o \in callsNamed(Game, name) : o.game = Game

\* getHandResult has been called on the hand that is now complete.
Settled == Dealt /\ isHandComplete(Game) /\ settlesLeft < MaxSettle

\* C26: within one hand the pot is credited at most once: a further
\* getHandResult() on a settled hand changes no stack, and the stacks never
\* add up to more than 6 x stackSize.
C26_SettleOnce ==
  /\ Settled => getHandResult(Game).players = players
  /\ sumStacks(players, NumSeats) <= NumSeats * stackSize

\* A hand has been started and has not been settled yet.
Unsettled == Dealt /\ started /\ settlesLeft = MaxSettle

\* C27: after startNewHand and after every accepted action a non-folded seat
\* has stack 0 exactly when it is flagged all-in, and the current actor has
\* a legal action other than fold.
C27_AllInIffEmpty ==
  Unsettled =>
    /\ \A i \in nonFolded(Game) : players[i].stack = 0 <=> players[i].isAllIn
    /\ ~isHandComplete(Game) => getValidActions(Game) \ {"fold"} # {}

\* C28: from startNewHand with every stack at least the big blind, betting
\* in which every call is accepted and every amount is at least 1 completes
\* the hand after finitely many actions.
C28_HandTerminates == (started /\ ~handOver) ~> handOver

\* C29: in every state of a hand at least one seat is non-folded; when
\* exactly one is left fold() returns the empty string and folds nobody, so
\* settlement has a seat to pay.
C29_SomeoneLeft ==
  Dealt =>
    /\ \E i \in Seats : ~players[i].isFolded
    /\ \A w \in Seats :
         (\A i \in Seats : ~players[i].isFolded <=> i = w) =>
           /\ fold(Game).ret = NoResult
           /\ fold(Game).game = Game
           /\ ~getHandResult(Game).players[w].isFolded

\* Five seats have folded in the hand in play and a further call was
\* turned down: the last seat is still in.
C29_Witness ==
  /\ started
  /\ Cardinality({i \in Seats : players[i].isFolded}) = NumSeats - 1
  /\ result = NoResult
  /\ settlesLeft = MaxSettle

====
